---- MODULE Spec2Model ----
(***************************************************************************)
(* Verdict and rendering semantics of two expectations:                    *)
(*   ExpectColumnMeanToBeBetween   (expect_column_mean_to_be_between.py)   *)
(*   ExpectMulticolumnSumToEqual   (expect_multicolumn_sum_to_equal.py)    *)
(*                                                                         *)
(* Every operation is a pure function of its arguments.  A behaviour is    *)
(* one call: Init draws the arguments, one action per method applies it.   *)
(* Templates are real strings, built by concatenation as the f-strings do. *)
(***************************************************************************)
EXTENDS Integers, Sequences, FiniteSets, TLC

VARIABLES args, op, out, expectation

vars == <<args, op, out, expectation>>

(***************************************************************************)
(* Bounds of the model                                                     *)
(***************************************************************************)
MaxVal == 2
MaxRows == 4
MaxDen == 5
MaxCols == 3

(***************************************************************************)
(* Python values: tagged tuples, so that None, 0 and False stay distinct.  *)
(***************************************************************************)
None == <<"none">>
Absent == <<"absent">>
Num(n) == <<"num", n>>
Bool(b) == <<"bool", b>>
Str(s) == <<"str", s>>
List(s) == <<"list", s>>
Dict(f) == <<"dict", f>>
Param(t, v) == <<"param", t, v>>

EmptyDict == [k \in {} |-> None]

\* bool(x): None, 0, False, "" and empty containers are falsy; a renderer
\* param object has fields (schema, value) and is truthy.
Truthy(x) ==
    CASE x[1] = "none" -> FALSE
      [] x[1] = "num" -> x[2] # 0
      [] x[1] = "bool" -> x[2]
      [] x[1] = "str" -> x[2] # ""
      [] x[1] = "list" -> Len(x[2]) > 0
      [] x[1] = "dict" -> DOMAIN x[2] # {}
      [] x[1] = "param" -> TRUE

\* dict.get(key)
Get(d, k) == IF k \in DOMAIN d THEN d[k] ELSE None

\* dict.update(other)
Update(d, e) ==
    [k \in DOMAIN d \cup DOMAIN e |-> IF k \in DOMAIN e THEN e[k] ELSE d[k]]

\* d[key] = value
Put(d, k, v) == [j \in DOMAIN d \cup {k} |-> IF j = k THEN v ELSE d[j]]

\* a dict literal from which the keys bound to Absent are left out
Present(d) == [k \in {j \in DOMAIN d : d[j] # Absent} |-> d[k]]

substitute_none_for_missing(kwargs, kwarg_list) ==
    [k \in DOMAIN kwargs \cup kwarg_list |-> Get(kwargs, k)]

(***************************************************************************)
(* ExpectColumnMeanToBeBetween: construction and _validate                 *)
(***************************************************************************)
Vals == (0 - MaxVal)..MaxVal

IsNumber(x) == x[1] = "num"
IsBool(x) == x[1] = "bool"

\* The declared fields and their defaults; a field that is not passed takes
\* its default, a passed value must have the declared type.
MeanFieldDefaults ==
    [min_value |-> None, max_value |-> None,
     strict_min |-> Bool(FALSE), strict_max |-> Bool(FALSE)]

MeanFieldsValid(kw) ==
    /\ kw.min_value = None \/ IsNumber(kw.min_value)
    /\ kw.max_value = None \/ IsNumber(kw.max_value)
    /\ IsBool(kw.strict_min)
    /\ IsBool(kw.strict_max)

ConstructMean(kwargs) ==
    LET kw == [k \in DOMAIN MeanFieldDefaults |->
                 IF k \in DOMAIN kwargs THEN kwargs[k] ELSE MeanFieldDefaults[k]]
    IN IF MeanFieldsValid(kw)
       THEN [status |-> "ok", self |-> kw]
       ELSE [status |-> "ConfigurationError", self |-> MeanFieldDefaults]

\* ColumnAggregateExpectation._validate_metric_value_between
_validate_metric_value_between(metric_name, configuration, metrics) ==
    LET metric_value == metrics[metric_name]
        min_value == configuration.min_value
        max_value == configuration.max_value
        strict_min == configuration.strict_min = Bool(TRUE)
        strict_max == configuration.strict_max = Bool(TRUE)
        above_min == IF min_value # None
                     THEN IF strict_min THEN metric_value > min_value[2]
                                        ELSE metric_value >= min_value[2]
                     ELSE TRUE
        below_max == IF max_value # None
                     THEN IF strict_max THEN metric_value < max_value[2]
                                        ELSE metric_value <= max_value[2]
                     ELSE TRUE
    IN [success |-> above_min /\ below_max, observed_value |-> metric_value]

_validate_other_metric(self, metrics) ==
    _validate_metric_value_between("column.median", self, metrics)

_validate(self, metrics) ==
    _validate_metric_value_between("column.mean", self, metrics)

(***************************************************************************)
(* ExpectColumnMeanToBeBetween._prescriptive_template                      *)
(***************************************************************************)
add_param_args ==
    << <<"column", "string">>,
       <<"min_value", "number">>,
       <<"max_value", "number">>,
       <<"strict_min", "boolean">>,
       <<"strict_max", "boolean">> >>

\* RendererConfiguration.add_param: the value is looked up in kwargs; a
\* None value gives a None param, any other value a param object carrying
\* the schema type and the value.
add_param(renderer_configuration, name, param_type) ==
    LET value == Get(renderer_configuration.kwargs, name)
        param == IF value = None THEN None ELSE Param(param_type, value)
    IN [renderer_configuration EXCEPT !.params = Put(@, name, param)]

RECURSIVE AddParams(_, _)
AddParams(renderer_configuration, i) ==
    IF i > Len(add_param_args)
    THEN renderer_configuration
    ELSE AddParams(add_param(renderer_configuration,
                             add_param_args[i][1], add_param_args[i][2]),
                   i + 1)

\* The strict phrase of the configured flag.
_get_strict_min_string(renderer_configuration) ==
    IF renderer_configuration.params["strict_min"][3] = Bool(TRUE)
    THEN "strictly greater than"
    ELSE "greater than or equal to"

_get_strict_max_string(renderer_configuration) ==
    IF renderer_configuration.params["strict_max"][3] = Bool(TRUE)
    THEN "strictly less than"
    ELSE "less than or equal to"

TemplateAtLeastStr(renderer_configuration) ==
    IF Truthy(renderer_configuration.params["strict_min"])
    THEN _get_strict_min_string(renderer_configuration)
    ELSE "greater than or equal to"

TemplateAtMostStr(renderer_configuration) ==
    IF Truthy(renderer_configuration.params["strict_max"])
    THEN _get_strict_max_string(renderer_configuration)
    ELSE "less than or equal to"

\* A variant that decides presence on the value held by the param, as
\* bool(value) would.
TemplateBoundPhraseByValue(renderer_configuration) ==
    LET params == renderer_configuration.params
        HasValue(p) == p # None /\ Truthy(p[3])
        at_least_str == TemplateAtLeastStr(renderer_configuration)
        at_most_str == TemplateAtMostStr(renderer_configuration)
    IN IF ~HasValue(params["min_value"]) /\ ~HasValue(params["max_value"])
       THEN "mean may have any numerical value."
       ELSE IF HasValue(params["min_value"]) /\ HasValue(params["max_value"])
            THEN "mean must be " \o at_least_str \o " $min_value and "
                 \o at_most_str \o " $max_value."
            ELSE IF ~HasValue(params["min_value"])
                 THEN "mean must be " \o at_most_str \o " $max_value."
                 ELSE "mean must be " \o at_least_str \o " $min_value."

\* A variant whose lower-bound phrase is selected by the wrong flag.
TemplateBoundPhraseWrongFlag(renderer_configuration) ==
    LET params == renderer_configuration.params
        at_least_str == IF Truthy(params["strict_max"])
                        THEN "strictly greater than"
                        ELSE "greater than or equal to"
        at_most_str == TemplateAtMostStr(renderer_configuration)
    IN IF ~Truthy(params["min_value"]) /\ ~Truthy(params["max_value"])
       THEN "mean may have any numerical value."
       ELSE IF Truthy(params["min_value"]) /\ Truthy(params["max_value"])
            THEN "mean must be " \o at_least_str \o " $min_value and "
                 \o at_most_str \o " $max_value."
            ELSE IF ~Truthy(params["min_value"])
                 THEN "mean must be " \o at_most_str \o " $max_value."
                 ELSE "mean must be " \o at_least_str \o " $min_value."

TemplateBoundPhrase(renderer_configuration) ==
    LET params == renderer_configuration.params
        at_least_str == TemplateAtLeastStr(renderer_configuration)
        at_most_str == TemplateAtMostStr(renderer_configuration)
    IN IF ~Truthy(params["min_value"]) /\ ~Truthy(params["max_value"])
       THEN "mean may have any numerical value."
       ELSE IF Truthy(params["min_value"]) /\ Truthy(params["max_value"])
            THEN "mean must be " \o at_least_str \o " $min_value and "
                 \o at_most_str \o " $max_value."
            ELSE IF ~Truthy(params["min_value"])
                 THEN "mean must be " \o at_most_str \o " $max_value."
                 ELSE "mean must be " \o at_least_str \o " $min_value."

_prescriptive_template(renderer_configuration) ==
    LET rc == AddParams(renderer_configuration, 1)
        phrase == TemplateBoundPhrase(rc)
        template_str == IF rc.include_column_name
                        THEN "$column " \o phrase
                        ELSE phrase
    IN [rc EXCEPT !.template_str = template_str]

(***************************************************************************)
(* ExpectColumnMeanToBeBetween._prescriptive_renderer                      *)
(***************************************************************************)
MeanRendererKeys ==
    {"column", "min_value", "max_value", "row_condition", "condition_parser",
     "strict_min", "strict_max"}

\* render.util.handle_strict_min_max
handle_strict_min_max(params) ==
    << IF Get(params, "strict_min") = Bool(TRUE)
       THEN "strictly greater than" ELSE "greater than or equal to",
       IF Get(params, "strict_max") = Bool(TRUE)
       THEN "strictly less than" ELSE "less than or equal to" >>

\* render.util.parse_row_condition_string_pandas_engine: the clause
\* template and the params its placeholders are bound to.
parse_row_condition_string_pandas_engine(row_condition) ==
    << "if $row_condition__0", [k \in {"row_condition__0"} |-> row_condition] >>

\* A variant that decides presence by truthiness of the raw values.
RendererBoundPhraseByTruthiness(params) ==
    LET strs == handle_strict_min_max(params)
    IN IF ~Truthy(params["min_value"]) /\ ~Truthy(params["max_value"])
       THEN "mean may have any numerical value."
       ELSE IF Truthy(params["min_value"]) /\ Truthy(params["max_value"])
            THEN "mean must be " \o strs[1] \o " $min_value and "
                 \o strs[2] \o " $max_value."
            ELSE IF ~Truthy(params["min_value"])
                 THEN "mean must be " \o strs[2] \o " $max_value."
                 ELSE "mean must be " \o strs[1] \o " $min_value."

RendererBoundPhrase(params) ==
    IF params["min_value"] = None /\ params["max_value"] = None
    THEN "mean may have any numerical value."
    ELSE LET strs == handle_strict_min_max(params)
             at_least_str == strs[1]
             at_most_str == strs[2]
         IN IF params["min_value"] # None /\ params["max_value"] # None
            THEN "mean must be " \o at_least_str \o " $min_value and "
                 \o at_most_str \o " $max_value."
            ELSE IF params["min_value"] = None
                 THEN "mean must be " \o at_most_str \o " $max_value."
                 ELSE IF params["max_value"] = None
                      THEN "mean must be " \o at_least_str \o " $min_value."
                      ELSE ""

\* runtime_configuration = runtime_configuration or {}
OrEmptyDict(runtime_configuration) ==
    IF Truthy(runtime_configuration) THEN runtime_configuration[2] ELSE EmptyDict

\* A variant that prefixes the subject only when the flag is truthy.
IncludeColumnNameIfTruthy(runtime_configuration) ==
    Truthy(Get(OrEmptyDict(runtime_configuration), "include_column_name"))

IncludeColumnName(runtime_configuration) ==
    IF Get(OrEmptyDict(runtime_configuration), "include_column_name") = Bool(FALSE)
    THEN FALSE
    ELSE TRUE

_prescriptive_renderer(configuration, runtime_configuration) ==
    LET rt == OrEmptyDict(runtime_configuration)
        include_column_name == IncludeColumnName(runtime_configuration)
        styling == Get(rt, "styling")
        params == substitute_none_for_missing(configuration.kwargs, MeanRendererKeys)
        phrase == RendererBoundPhrase(params)
        with_column == IF include_column_name THEN "$column " \o phrase ELSE phrase
        cond == parse_row_condition_string_pandas_engine(params["row_condition"])
    IN IF params["row_condition"] # None
       THEN [template |-> cond[1] \o ", then " \o with_column,
             params |-> Update(params, cond[2]),
             styling |-> styling]
       ELSE [template |-> with_column, params |-> params, styling |-> styling]

(***************************************************************************)
(* ExpectMulticolumnSumToEqual: fields, verdict and _prescriptive_renderer *)
(***************************************************************************)
IgnoreRowIfValues == {"all_values_are_missing", "any_value_is_missing", "never"}

IgnoreRowIfDefault == "all_values_are_missing"

success_keys_without_mostly == {"sum_total"}

success_keys == {"mostly", "sum_total"}

\* mostly is an exact fraction numerator/denominator; 1.0 when not configured.
Frac(n, d) == <<"frac", n, d>>

MostlyDefault == Frac(1, 1)

ConstructSum(kwargs) ==
    LET policy == IF "ignore_row_if" \in DOMAIN kwargs
                  THEN kwargs["ignore_row_if"][2] ELSE IgnoreRowIfDefault
        self == [sum_total |-> Get(kwargs, "sum_total"),
                 mostly |-> IF "mostly" \in DOMAIN kwargs
                            THEN kwargs["mostly"] ELSE MostlyDefault,
                 ignore_row_if |-> policy]
    IN IF policy \in IgnoreRowIfValues /\ "sum_total" \in DOMAIN kwargs
       THEN [status |-> "ok", self |-> self]
       ELSE [status |-> "ConfigurationError", self |-> self]

\* The keyword arguments that take part in the verdict.
get_success_kwargs(self) ==
    [mostly |-> IF "mostly" \in success_keys THEN self.mostly ELSE MostlyDefault,
     sum_total |-> self.sum_total]

\* A variant in which a row with missing inputs passes under "never".
ApplyPolicyLenient(outcome, ignore_row_if) ==
    IF outcome # "inapplicable"
    THEN outcome
    ELSE IF ignore_row_if = "never" THEN "match" ELSE "excluded"

\* Step 1: the outcome of a row after the missing-value policy is applied.
ApplyPolicy(outcome, ignore_row_if) ==
    IF outcome # "inapplicable"
    THEN outcome
    ELSE IF ignore_row_if = "never" THEN "mismatch" ELSE "excluded"

\* Step 2: one pass over the rows, counting <<considered, unexpected>>.
RECURSIVE CountRows(_, _, _, _)
CountRows(outcomes, ignore_row_if, i, acc) ==
    IF i > Len(outcomes)
    THEN acc
    ELSE LET o == ApplyPolicy(outcomes[i], ignore_row_if)
         IN CountRows(outcomes, ignore_row_if, i + 1,
                      << acc[1] + (IF o = "excluded" THEN 0 ELSE 1),
                         acc[2] + (IF o = "mismatch" THEN 1 ELSE 0) >>)

\* Step 4: (considered - unexpected) / considered >= mostly, exactly.
_mostly_success(rows_considered_cnt, unexpected_cnt, mostly) ==
    (rows_considered_cnt - unexpected_cnt) * mostly[3]
        >= mostly[2] * rows_considered_cnt

\* MulticolumnMapExpectation._validate
ValidateRowOutcomes(self, outcomes) ==
    LET counts == CountRows(outcomes, self.ignore_row_if, 1, <<0, 0>>)
        considered == counts[1]
        unexpected == counts[2]
        mostly == get_success_kwargs(self).mostly
    IN [success |-> IF considered = 0
                    THEN TRUE
                    ELSE _mostly_success(considered, unexpected, mostly),
        considered_count |-> considered,
        unexpected_count |-> unexpected,
        unexpected_percent |-> IF considered = 0
                               THEN <<0, 1>>
                               ELSE <<unexpected, considered>>]

\* render.util.num_to_str(mostly * 100) for a whole percentage
num_to_str_pct(mostly) == Str(ToString((mostly[2] * 100) \div mostly[3]))

\* list[idx]; an index outside -len..len-1 raises IndexError
IndexInRange(list, idx) == idx >= 0 - Len(list[2]) /\ idx < Len(list[2])

PyIndex(list, idx) ==
    IF idx >= 0 THEN list[2][idx + 1] ELSE list[2][Len(list[2]) + idx + 1]

\* for idx in range(stop): the loop of lines 109-111
RECURSIVE ColumnListLoop(_, _, _, _)
ColumnListLoop(column_list, idx, stop, acc) ==
    IF idx >= stop
    THEN acc
    ELSE ColumnListLoop(column_list, idx + 1, stop,
             << acc[1] \o "$column_list_" \o ToString(idx) \o ", ",
                Put(acc[2], "column_list_" \o ToString(idx),
                    PyIndex(column_list, idx)) >>)

\* A variant whose loop also visits the last index.
ColumnListLoopStopOffByOne(column_list) == Len(column_list[2])

ColumnListLoopStop(column_list) == Len(column_list[2]) - 1

SumPrescriptiveRenderer(configuration, runtime_configuration) ==
    LET rt == OrEmptyDict(runtime_configuration)
        styling == Get(rt, "styling")
        params0 == substitute_none_for_missing(configuration.kwargs,
                                               {"column_list", "sum_total", "mostly"})
        params1 == IF params0["mostly"] # None
                   THEN Put(params0, "mostly_pct", num_to_str_pct(params0["mostly"]))
                   ELSE params0
        mostly_str == IF Get(params1, "mostly") = None
                      THEN ""
                      ELSE ", at least $mostly_pct % of the time"
        column_list == params1["column_list"]
        looped == ColumnListLoop(column_list, 0, ColumnListLoopStop(column_list),
                                 <<"", params1>>)
        last_idx == Len(column_list[2]) - 1
        column_list_str == looped[1] \o "$column_list_" \o ToString(last_idx)
    IN IF ~IndexInRange(column_list, last_idx)
       THEN [status |-> "IndexError", template |-> "", params |-> EmptyDict,
             styling |-> styling]
       ELSE [status |-> "ok",
             template |-> "Sum across columns " \o column_list_str
                          \o " must be $sum_total" \o mostly_str \o ".",
             params |-> Put(looped[2], "column_list_" \o ToString(last_idx),
                            PyIndex(column_list, last_idx)),
             styling |-> styling]

(***************************************************************************)
(* Arguments of a call                                                     *)
(***************************************************************************)
Nums == {Num(v) : v \in Vals}

Flags == {Bool(FALSE), Bool(TRUE)}

RowConditions == {Str("age > 0")}

Stylings == {Dict([k \in {"default"} |-> Str("badge")])}

\* keyword arguments a mean expectation is constructed from
MeanConstructorKwargs ==
    { Present([min_value |-> mn, max_value |-> mx,
               strict_min |-> smin, strict_max |-> smax]) :
        mn \in {Absent, Str("abc")} \cup Nums, mx \in {Absent} \cup Nums,
        smin \in {Absent} \cup Flags, smax \in {Absent} \cup Flags }

Metrics ==
    { [k \in {"column.mean", "column.median"} |->
          IF k = "column.mean" THEN mean ELSE median] :
        mean \in Vals, median \in Vals }

\* configuration.kwargs handed to the renderers of the mean expectation
MeanRenderKwargs ==
    { Present([column |-> Str("age"),
               min_value |-> mn, max_value |-> mx,
               strict_min |-> smin, strict_max |-> smax,
               row_condition |-> rc]) :
        mn \in {Absent, None} \cup Nums, mx \in {Absent, None} \cup Nums,
        smin \in {Absent, None} \cup Flags, smax \in {Absent, None} \cup Flags,
        rc \in {Absent} \cup RowConditions }

RuntimeConfigurations ==
    {None, Dict(EmptyDict)}
    \cup { Dict([k \in {"include_column_name"} |-> v]) :
             v \in {None, Bool(TRUE), Bool(FALSE)} }
    \cup { Dict([k \in {"include_column_name", "styling"} |->
                   IF k = "styling" THEN st ELSE Bool(FALSE)]) : st \in Stylings }

Columns == {"a", "b"}

RECURSIVE SeqsUpTo(_, _)
SeqsUpTo(S, n) ==
    IF n = 0
    THEN {<<>>}
    ELSE LET shorter == SeqsUpTo(S, n - 1)
         IN shorter \cup {Append(q, x) : q \in {r \in shorter : Len(r) = n - 1}, x \in S}

ColumnLists == {List(q) : q \in SeqsUpTo({Str(c) : c \in Columns}, MaxCols)}

\* whole percentages
RenderMostly == {Frac(1, 2), Frac(3, 4), Frac(1, 1)}

SumRenderKwargs ==
    { Present([column_list |-> cl, sum_total |-> st, mostly |-> m]) :
        cl \in ColumnLists, st \in {Num(0), Num(100)},
        m \in {Absent, None} \cup RenderMostly }

Outcomes == {"match", "mismatch", "inapplicable"}

OutcomeSeqs == SeqsUpTo(Outcomes, MaxRows)

\* mostly in [0, 1]
Tolerances ==
    {f \in {Frac(n, d) : n \in 0..MaxDen, d \in 1..MaxDen} : f[2] <= f[3]}

SumConstructorKwargs ==
    { Present([sum_total |-> Num(100), mostly |-> m, ignore_row_if |-> p]) :
        m \in {Absent} \cup Tolerances,
        p \in {Absent, Str("sometimes")} \cup {Str(v) : v \in IgnoreRowIfValues} }

(***************************************************************************)
(* The calls                                                               *)
(***************************************************************************)
Init ==
    /\ op = "init"
    /\ out = None
    /\ expectation = None
    /\ \/ \E kw \in MeanConstructorKwargs, m \in Metrics :
             args = [kind |-> "mean", kwargs |-> kw, metrics |-> m]
       \/ \E kw \in MeanRenderKwargs, incl \in BOOLEAN :
             args = [kind |-> "template",
                     renderer_configuration |->
                         [kwargs |-> kw, include_column_name |-> incl,
                          params |-> EmptyDict, template_str |-> ""]]
       \/ \E kw \in MeanRenderKwargs, rt \in RuntimeConfigurations :
             args = [kind |-> "renderer", configuration |-> [kwargs |-> kw],
                     runtime_configuration |-> rt]
       \/ \E kw \in SumConstructorKwargs, rows \in OutcomeSeqs :
             args = [kind |-> "sum", kwargs |-> kw, outcomes |-> rows]
       \/ \E kw \in SumRenderKwargs, rt \in {None} \cup Stylings :
             args = [kind |-> "sum_renderer", configuration |-> [kwargs |-> kw],
                     runtime_configuration |->
                         IF rt = None THEN None
                         ELSE Dict([k \in {"styling"} |-> rt])]

\* ExpectColumnMeanToBeBetween(**kwargs)
Construct ==
    /\ op = "init"
    /\ args.kind = "mean"
    /\ LET r == ConstructMean(args.kwargs)
       IN /\ op' = IF r.status = "ok" THEN "constructed" ELSE r.status
          /\ expectation' = IF r.status = "ok" THEN r.self ELSE expectation
    /\ UNCHANGED <<args, out>>

\* expectation._validate(configuration, metrics)
Validate ==
    /\ op = "constructed"
    /\ args.kind = "mean"
    /\ out' = _validate(expectation, args.metrics)
    /\ op' = "validated"
    /\ UNCHANGED <<args, expectation>>

\* ExpectColumnMeanToBeBetween._prescriptive_template(renderer_configuration)
PrescriptiveTemplate ==
    /\ op = "init"
    /\ args.kind = "template"
    /\ out' = _prescriptive_template(args.renderer_configuration)
    /\ op' = "rendered"
    /\ UNCHANGED <<args, expectation>>

\* ExpectColumnMeanToBeBetween._prescriptive_renderer(configuration, ...)
PrescriptiveRenderer ==
    /\ op = "init"
    /\ args.kind = "renderer"
    /\ out' = _prescriptive_renderer(args.configuration, args.runtime_configuration)
    /\ op' = "rendered"
    /\ UNCHANGED <<args, expectation>>

\* ExpectMulticolumnSumToEqual(**kwargs)
ConstructSumExpectation ==
    /\ op = "init"
    /\ args.kind = "sum"
    /\ LET r == ConstructSum(args.kwargs)
       IN /\ op' = IF r.status = "ok" THEN "constructed" ELSE r.status
          /\ expectation' = IF r.status = "ok" THEN r.self ELSE expectation
    /\ UNCHANGED <<args, out>>

\* the verdict of the constructed sum expectation over the row outcomes
ValidateSum ==
    /\ op = "constructed"
    /\ args.kind = "sum"
    /\ out' = ValidateRowOutcomes(expectation, args.outcomes)
    /\ op' = "validated"
    /\ UNCHANGED <<args, expectation>>

\* ExpectMulticolumnSumToEqual._prescriptive_renderer(configuration, ...)
SumRenderer ==
    /\ op = "init"
    /\ args.kind = "sum_renderer"
    /\ out' = SumPrescriptiveRenderer(args.configuration, args.runtime_configuration)
    /\ op' = IF out'.status = "ok" THEN "rendered" ELSE out'.status
    /\ UNCHANGED <<args, expectation>>

Next ==
    \/ Construct
    \/ Validate
    \/ PrescriptiveTemplate
    \/ PrescriptiveRenderer
    \/ ConstructSumExpectation
    \/ ValidateSum
    \/ SumRenderer

Spec == Init /\ [][Next]_vars

(***************************************************************************)
(* Properties                                                              *)
(***************************************************************************)
MeanValidated == op = "validated" /\ args.kind = "mean"

SumValidated == op = "validated" /\ args.kind = "sum"

MeanRendered == op = "rendered" /\ args.kind \in {"template", "renderer"}

\* the configuration.kwargs of a rendering call of the mean expectation
RenderKwargs ==
    IF args.kind = "template"
    THEN args.renderer_configuration.kwargs
    ELSE args.configuration.kwargs

\* the template string a rendering call of the mean expectation returned
RenderedTemplate ==
    IF args.kind = "template" THEN out.template_str ELSE out.template

\* what may precede the bound phrase: the subject and the filter clause
Prefixes ==
    {"", "$column ", "if $row_condition__0, then ",
     "if $row_condition__0, then $column "}

EndsWithPhrase(template, phrase) == \E p \in Prefixes : template = p \o phrase

\* C1: the verdict of the mean rule is success iff the mean satisfies every
\* bound that is not None, inclusively unless the side's strict flag is set.
BoundVerdict ==
    MeanValidated =>
        LET value == args.metrics["column.mean"]
            mn == expectation.min_value
            mx == expectation.max_value
            smin == expectation.strict_min = Bool(TRUE)
            smax == expectation.strict_max = Bool(TRUE)
        IN out.success <=>
             /\ \/ mn = None
                \/ ~smin /\ value >= mn[2]
                \/ smin /\ value > mn[2]
             /\ \/ mx = None
                \/ ~smax /\ value <= mx[2]
                \/ smax /\ value < mx[2]

\* C1 witness: a mean equal to a strict lower endpoint, below a non-strict
\* upper bound that differs from the median, has been judged a failure.
BoundVerdictWitness ==
    /\ MeanValidated
    /\ expectation.min_value = Num(args.metrics["column.mean"])
    /\ expectation.strict_min = Bool(TRUE)
    /\ expectation.max_value = Num(MaxVal)
    /\ args.metrics["column.median"] > args.metrics["column.mean"]
    /\ ~out.success

\* C2: the verdict of the sum rule over row outcomes: the counts are those
\* of the rows left by the policy, the percentage is 0 over no rows, and
\* success is (1 - unexpectedPercent) >= mostly.
RowVerdict ==
    SumValidated =>
        LET rows == args.outcomes
            policy == expectation.ignore_row_if
            tol == IF "mostly" \in DOMAIN args.kwargs
                   THEN args.kwargs["mostly"] ELSE Frac(1, 1)
            consideredRows ==
                {i \in 1..Len(rows) : policy = "never" \/ rows[i] # "inapplicable"}
            unexpectedRows == {i \in consideredRows : rows[i] # "match"}
            c == Cardinality(consideredRows)
            u == Cardinality(unexpectedRows)
        IN /\ out.considered_count = c
           /\ out.unexpected_count = u
           /\ out.unexpected_percent = IF c = 0 THEN <<0, 1>> ELSE <<u, c>>
           /\ out.success <=> (c = 0 \/ (c - u) * tol[3] >= tol[2] * c)

\* C2 witness: [match, match, mismatch, inapplicable] under all-missing at
\* tolerance 3/4: three rows considered, one unexpected, failure.
RowVerdictWitness ==
    /\ SumValidated
    /\ args.outcomes = <<"match", "match", "mismatch", "inapplicable">>
    /\ expectation.ignore_row_if = "all_values_are_missing"
    /\ expectation.mostly = Frac(3, 4)
    /\ out.considered_count = 3
    /\ out.unexpected_count = 1
    /\ ~out.success

\* C3: the unexpected fraction under "never" is at least the fraction the
\* same rows give under "all_values_are_missing".
NeverAtLeastAllMissing ==
    (SumValidated /\ expectation.ignore_row_if = "never") =>
        LET other == ValidateRowOutcomes(
                         [expectation EXCEPT !.ignore_row_if = "all_values_are_missing"],
                         args.outcomes).unexpected_percent
            mine == out.unexpected_percent
        IN mine[1] * other[2] >= other[1] * mine[2]

\* C3 witness: rows with a match, a mismatch and a missing-input row judged
\* under "never", where the fraction is strictly larger (2/3 against 1/2).
NeverAtLeastAllMissingWitness ==
    /\ SumValidated
    /\ expectation.ignore_row_if = "never"
    /\ args.outcomes = <<"match", "mismatch", "inapplicable">>
    /\ out.unexpected_percent = <<2, 3>>

LowerPhrase(kw) ==
    IF Get(kw, "strict_min") = Bool(TRUE)
    THEN "strictly greater than" ELSE "greater than or equal to"

UpperPhrase(kw) ==
    IF Get(kw, "strict_max") = Bool(TRUE)
    THEN "strictly less than" ELSE "less than or equal to"

ExplicitlyExcluded(runtime_configuration) ==
    /\ runtime_configuration # None
    /\ "include_column_name" \in DOMAIN runtime_configuration[2]
    /\ runtime_configuration[2]["include_column_name"] = Bool(FALSE)

\* C6: _prescriptive_renderer prefixes "$column " unless include_column_name
\* is explicitly False, and with a row_condition puts "<clause>, then "
\* before the whole phrase and merges the clause's params.
PrefixComposition ==
    (op = "rendered" /\ args.kind = "renderer") =>
        LET kw == args.configuration.kwargs
            bare == _prescriptive_renderer(
                        [kwargs |-> [k \in DOMAIN kw \ {"row_condition"} |-> kw[k]]],
                        Dict([k \in {"include_column_name"} |-> Bool(FALSE)])).template
            phrase == IF ExplicitlyExcluded(args.runtime_configuration)
                      THEN bare ELSE "$column " \o bare
            clause == parse_row_condition_string_pandas_engine(Get(kw, "row_condition"))
        IN IF Get(kw, "row_condition") # None
           THEN /\ out.template = clause[1] \o ", then " \o phrase
                /\ \A k \in DOMAIN clause[2] :
                      k \in DOMAIN out.params /\ out.params[k] = clause[2][k]
           ELSE out.template = phrase

\* C6 witness: a row_condition and no runtime configuration.
PrefixCompositionWitness ==
    /\ op = "rendered"
    /\ args.kind = "renderer"
    /\ args.runtime_configuration = None
    /\ Get(args.configuration.kwargs, "row_condition") = Str("age > 0")
    /\ out.template
         = "if $row_condition__0, then $column mean may have any numerical value."
    /\ out.params["row_condition__0"] = Str("age > 0")

RECURSIVE JoinedPlaceholders(_)
JoinedPlaceholders(n) ==
    IF n = 1
    THEN "$column_list_0"
    ELSE JoinedPlaceholders(n - 1) \o ", " \o "$column_list_" \o ToString(n - 1)

\* C7: for a non-empty column_list of length n the sum rule's template
\* names $column_list_0 .. $column_list_{n-1} in order, joined with ", ",
\* and params bind exactly column_list_i to column_list[i].
ListRendering ==
    (args.kind = "sum_renderer" /\ op # "init"
        /\ Len(args.configuration.kwargs["column_list"][2]) >= 1) =>
        LET kw == args.configuration.kwargs
            column_list == kw["column_list"][2]
            n == Len(column_list)
            mostly_str == IF Get(kw, "mostly") = None
                          THEN "" ELSE ", at least $mostly_pct % of the time"
            other_keys == {"column_list", "sum_total", "mostly", "mostly_pct"}
        IN /\ op = "rendered"
           /\ out.template = "Sum across columns " \o JoinedPlaceholders(n)
                             \o " must be $sum_total" \o mostly_str \o "."
           /\ \A i \in 0..(n - 1) :
                 /\ ("column_list_" \o ToString(i)) \in DOMAIN out.params
                 /\ out.params["column_list_" \o ToString(i)] = column_list[i + 1]
           /\ DOMAIN out.params \ other_keys
                 = {"column_list_" \o ToString(i) : i \in 0..(n - 1)}

\* C7 witness: three columns rendered.
ListRenderingWitness ==
    /\ op = "rendered"
    /\ args.kind = "sum_renderer"
    /\ args.configuration.kwargs["column_list"] = List(<<Str("a"), Str("b"), Str("a")>>)
    /\ Get(args.configuration.kwargs, "mostly") = None
    /\ out.template
         = "Sum across columns $column_list_0, $column_list_1, $column_list_2 must be $sum_total."
    /\ out.params["column_list_1"] = Str("b")

\* C8: rendering the sum rule with column_list = [] ends in a
\* configuration error, never in a template or in another error.
EmptyColumnListIsConfigurationError ==
    (args.kind = "sum_renderer" /\ op # "init"
        /\ Len(args.configuration.kwargs["column_list"][2]) = 0) =>
        op = "ConfigurationError"

IllOrdered(self) ==
    /\ self.min_value # None
    /\ self.max_value # None
    /\ \/ self.min_value[2] > self.max_value[2]
       \/ /\ self.min_value[2] = self.max_value[2]
          /\ self.strict_min = Bool(TRUE) \/ self.strict_max = Bool(TRUE)

\* C9: a mean rule with ill-ordered bounds succeeds for no value, and is
\* rejected at construction so that _validate is never reached with it;
\* equal bounds with both flags non-strict are accepted.
IllOrderedBoundsRejected ==
    args.kind = "mean" =>
        /\ (op = "validated" /\ IllOrdered(expectation)) => ~out.success
        /\ op \in {"constructed", "validated"} => ~IllOrdered(expectation)
        /\ op = "ConfigurationError" =>
              ~(/\ Get(args.kwargs, "min_value") = Get(args.kwargs, "max_value")
                /\ Get(args.kwargs, "min_value") # None
                /\ Get(args.kwargs, "strict_min") # Bool(TRUE)
                /\ Get(args.kwargs, "strict_max") # Bool(TRUE))

====
